---- MODULE Spec2Model ----
(***************************************************************************)
(* PID Controller Simulator (pidgui_starter_kit.py, pidgui_starter.py).    *)
(*                                                                         *)
(* Two things are modelled: the reference-building loop of                 *)
(* simulate_pid_step (the only original algorithm of the scripts) and the  *)
(* Generate button handler on_generate with the widgets it reads.          *)
(*                                                                         *)
(* Numbers.  A timestamp is the rational t[i] / t_den; a profile key is an *)
(* integer number of seconds, as in the source; a setpoint value and a     *)
(* gain are kept in tenths (1.0 is 10, 0.5 is 5, -3 is -30).               *)
(***************************************************************************)
EXTENDS Integers, Sequences, FiniteSets, TLC

VARIABLES
    script,       \* which of the two scripts is running: "kit" or "starter"
    kp_entry,     \* text of the Kp entry field
    ki_entry,     \* text of the Ki entry field
    kd_entry,     \* text of the Kd entry field
    input_type,   \* the dropdown's StringVar
    messagebox,   \* TRUE iff the submodule tkinter.messagebox has been loaded
    ref_profile,  \* the module-level dict, as its <<key, value>> pairs in insertion order
    pc,           \* "idle" | "on_generate" | "build" | "done" | "KeyError" | "IndexError"
    t,            \* the time vector of the running simulate_pid_step (numerators)
    t_den,        \* the common denominator of the entries of t
    r,            \* the reference array
    crnt_key,     \* local crnt_key
    counter,      \* local counter
    it,           \* number of elements `for val in t` has handed out
    calls,        \* simulation entry points invoked by the latest on_generate
    dialogs,      \* error dialogs shown by the latest on_generate
    uncaught,     \* exception that escaped the latest on_generate, or "none"
    writes,       \* indices r was written at during the current build, in order
    keys_used,    \* the crnt_key of each of those writes
    prev_r        \* reference array of the previous completed step build, or <<"none">>

gui  == <<script, kp_entry, ki_entry, kd_entry, input_type, messagebox>>
loop == <<pc, t, t_den, r, crnt_key, counter, it, writes, keys_used>>
log  == <<calls, dialogs, uncaught, prev_r>>
vars == <<gui, ref_profile, loop, log>>

-----------------------------------------------------------------------------
(* Bounds of the model *)

MaxLen == 3         \* longest enumerated time vector
NumSamples == 7     \* points of the simulation grid (3000 in the scripts)

(* Program constants *)

t_end == 30

-----------------------------------------------------------------------------
(* The reference profile *)

RefProfile ==
    << <<0, 10>>, <<3, 5>>, <<6, 15>>, <<10, -5>>, <<15, 20>>, <<20, -30>>, <<25, 0>> >>

KeysOf(profile) == {profile[i][1] : i \in DOMAIN profile}

\* ref_profile[key]
Lookup(profile, key) ==
    LET i == CHOOSE i \in DOMAIN profile : profile[i][1] = key IN profile[i][2]

\* np.linspace(start, stop, num), as numerators over the denominator LinspaceDen(num)
LinspaceDen(num) == IF num > 1 THEN num - 1 ELSE 1
Linspace(start, stop, num) ==
    [i \in 1..num |-> start * LinspaceDen(num) + (i - 1) * (stop - start)]

\* np.zeros_like(t)
ZerosLike_short(tv) == [i \in 1..(Len(tv) - 1) |-> 0]
ZerosLike(tv) == [i \in DOMAIN tv |-> 0]

-----------------------------------------------------------------------------
(* The loop of simulate_pid_step *)

\* crnt_key = 0
InitCrntKey_first(profile) == profile[1][1]
InitCrntKey_stale(profile) == crnt_key
InitCrntKey(profile) == 0

\* the test `val > item`, val being val / den
Crossed_ge(val, den, item) == val >= item * den
Crossed(val, den, item) == val > item * den

\* for item in ref_profile: if val > item: crnt_key = item
\* (from position idx of the dict's iteration order on, key being crnt_key so far)
RECURSIVE ScanProfile_break(_, _, _, _, _)
ScanProfile_break(profile, idx, val, den, key) ==
    IF idx > Len(profile) THEN key
    ELSE IF Crossed(val, den, profile[idx][1]) THEN profile[idx][1]
    ELSE ScanProfile_break(profile, idx + 1, val, den, key)
RECURSIVE ScanProfile(_, _, _, _, _)
ScanProfile(profile, idx, val, den, key) ==
    IF idx > Len(profile) THEN key
    ELSE ScanProfile(profile, idx + 1, val, den,
                     IF Crossed(val, den, profile[idx][1]) THEN profile[idx][1] ELSE key)

\* counter += 1
NextCounter_stuck(c) == c
NextCounter(c) == c + 1

\* one pass of `for val in t`: the inner scan, r[counter] = ref_profile[crnt_key],
\* counter += 1.  The lookup of a key the dict does not hold raises KeyError, a
\* write past the end of r raises IndexError.
LoopStep ==
    /\ pc = "build"
    /\ it < Len(t)
    /\ LET val == t[it + 1]
           key == ScanProfile(ref_profile, 1, val, t_den, crnt_key)
       IN  /\ it' = it + 1
           /\ crnt_key' = key
           /\ IF key \notin KeysOf(ref_profile)
              THEN /\ pc' = "KeyError"
                   /\ UNCHANGED <<r, writes, keys_used, counter>>
              ELSE IF counter < Len(r)
              THEN /\ r' = [r EXCEPT ![counter + 1] = Lookup(ref_profile, key)]
                   /\ writes' = Append(writes, counter)
                   /\ keys_used' = Append(keys_used, key)
                   /\ counter' = NextCounter(counter)
                   /\ pc' = pc
              ELSE /\ pc' = "IndexError"
                   /\ UNCHANGED <<r, writes, keys_used, counter>>
    /\ UNCHANGED <<t, t_den, gui, ref_profile, log>>

\* `for val in t` is exhausted: the loop is left
LoopExit ==
    /\ pc = "build"
    /\ it = Len(t)
    /\ pc' = "done"
    /\ UNCHANGED <<t, t_den, r, crnt_key, counter, it, writes, keys_used>>
    /\ UNCHANGED <<gui, ref_profile, log>>

\* The whole loop as a function of the profile and the time vector
RECURSIVE BuildFrom(_, _, _, _, _)
BuildFrom(profile, times, den, i, key) ==
    IF i > Len(times) THEN << >>
    ELSE LET k == ScanProfile(profile, 1, times[i], den, key)
         IN  <<Lookup(profile, k)>> \o BuildFrom(profile, times, den, i + 1, k)

build_reference(profile, times, den) == BuildFrom(profile, times, den, 1, InitCrntKey(profile))

-----------------------------------------------------------------------------
(* Inputs of the loop taken alone *)

ProfileKeys == {0, 3, 6}
TimeValues == {-1, 0, 1, 3, 4, 6, 7}

Min(S) == CHOOSE x \in S : \A y \in S : x <= y

RECURSIVE Ascending(_)
Ascending(K) ==
    IF K = {} THEN << >>
    ELSE <<Min(K)>> \o Ascending(K \ {Min(K)})

\* the entries of ref_profile with keys K, inserted in ascending key order
SubProfile(K) == [i \in 1..Cardinality(K) |-> <<Ascending(K)[i], Lookup(RefProfile, Ascending(K)[i])>>]

\* every insertion order of the same entries
Reorderings(profile) ==
    {[i \in DOMAIN profile |-> profile[f[i]]] : f \in Permutations(DOMAIN profile)}

Profiles == UNION {Reorderings(SubProfile(K)) : K \in (SUBSET ProfileKeys) \ {{}}}

TimeVectors == UNION {[1..n -> TimeValues] : n \in 0..MaxLen}

\* the scenario of the specification's worked example, in tenths of a second
ConcreteProfile == SubProfile({0, 3, 6})
ConcreteTimes == <<0, 10, 29, 30, 31, 59, 60, 1000>>
ConcreteExpected == <<10, 10, 10, 10, 5, 5, 5, 15>>

Scenarios ==
    {<<p, tv, 1>> : p \in Profiles, tv \in TimeVectors}
    \cup {<<ConcreteProfile, ConcreteTimes, 10>>}
    \cup {<<RefProfile, Linspace(0, t_end, NumSamples), LinspaceDen(NumSamples)>>}

InitBuild ==
    /\ script = "kit"
    /\ kp_entry = "5.0" /\ ki_entry = "2.0" /\ kd_entry = "0.5"
    /\ input_type = "Step"
    /\ messagebox = FALSE
    /\ \E s \in Scenarios :
          /\ ref_profile = s[1]
          /\ t = s[2]
          /\ t_den = s[3]
          /\ r = ZerosLike(s[2])
          /\ crnt_key = InitCrntKey(s[1])
    /\ pc = "build"
    /\ counter = 0
    /\ it = 0
    /\ calls = << >> /\ dialogs = 0 /\ uncaught = "none"
    /\ writes = << >> /\ keys_used = << >>
    /\ prev_r = <<"none">>

NextBuild == LoopStep \/ LoopExit

SpecBuild == InitBuild /\ [][NextBuild]_vars

FairSpecBuild == SpecBuild /\ WF_vars(NextBuild)

-----------------------------------------------------------------------------
(* The form and the Generate button *)

InputTypes == {"Step", "Ramp", "Sinusoidal"}

\* texts the user may leave in an entry field
EntryTexts == {"5.0", "2.0", "0.5", " 1e1 ", "abc", ""}

\* float(text): the value in tenths, or ValueError
ParseFloat(text) ==
    CASE text = "5.0" -> [ok |-> TRUE, val |-> 50]
      [] text = "2.0" -> [ok |-> TRUE, val |-> 20]
      [] text = "0.5" -> [ok |-> TRUE, val |-> 5]
      [] text = " 1e1 " -> [ok |-> TRUE, val |-> 100]
      [] OTHER        -> [ok |-> FALSE, val |-> 0]

\* input_type.get().lower()
Lower_missing(text) == text
Lower(text) ==
    CASE text = "Step"       -> "step"
      [] text = "Ramp"       -> "ramp"
      [] text = "Sinusoidal" -> "sinusoidal"
      [] OTHER               -> text

\* the if/elif chain of on_generate; pidgui_starter.py has only its first branch
EntryPoint(scr, selection) ==
    IF Lower(selection) = "step" THEN "simulate_pid_step"
    ELSE IF scr = "kit" /\ Lower(selection) = "ramp" THEN "simulate_pid_ramp"
    ELSE IF scr = "kit" /\ Lower(selection) = "sinusoidal" THEN "simulate_pid_sin"
    ELSE "none"

\* the user edits an entry field or picks an input type
TypeKp ==
    /\ pc = "idle"
    /\ \E text \in EntryTexts : kp_entry' = text
    /\ UNCHANGED <<script, ki_entry, kd_entry, input_type, messagebox, ref_profile, loop, log>>

TypeKi ==
    /\ pc = "idle"
    /\ \E text \in EntryTexts : ki_entry' = text
    /\ UNCHANGED <<script, kp_entry, kd_entry, input_type, messagebox, ref_profile, loop, log>>

TypeKd ==
    /\ pc = "idle"
    /\ \E text \in EntryTexts : kd_entry' = text
    /\ UNCHANGED <<script, kp_entry, ki_entry, input_type, messagebox, ref_profile, loop, log>>

SelectInputType ==
    /\ pc = "idle"
    /\ \E sel \in InputTypes : input_type' = sel
    /\ UNCHANGED <<script, kp_entry, ki_entry, kd_entry, messagebox, ref_profile, loop, log>>

\* the user presses Generate Plot: the main loop calls on_generate
PressGenerate ==
    /\ pc = "idle"
    /\ pc' = "on_generate"
    /\ calls' = << >> /\ dialogs' = 0 /\ uncaught' = "none"
    /\ UNCHANGED <<gui, ref_profile, prev_r>>
    /\ UNCHANGED <<t, t_den, r, crnt_key, counter, it, writes, keys_used>>

\* on_generate, up to the loop of simulate_pid_step when that is what it calls
on_generate ==
    /\ pc = "on_generate"
    /\ LET Kp == ParseFloat(kp_entry)
           Ki == ParseFloat(ki_entry)
           Kd == ParseFloat(kd_entry)
           fn == EntryPoint(script, input_type)
           grid == Linspace(0, t_end, NumSamples)
       IN  IF Kp.ok /\ Ki.ok /\ Kd.ok
           THEN /\ dialogs' = dialogs
                /\ calls' = IF fn = "none" THEN calls
                            ELSE Append(calls, [fn |-> fn, Kp |-> Kp.val, Ki |-> Ki.val, Kd |-> Kd.val])
                /\ IF fn = "simulate_pid_step" /\ script = "kit"
                   THEN \* lines 25-54 of simulate_pid_step
                        /\ t' = grid
                        /\ t_den' = LinspaceDen(NumSamples)
                        /\ r' = ZerosLike(grid)
                        /\ crnt_key' = InitCrntKey(ref_profile)
                        /\ counter' = 0
                        /\ it' = 0
                        /\ writes' = << >>
                        /\ keys_used' = << >>
                        /\ pc' = "build"
                        /\ UNCHANGED <<messagebox, uncaught>>
                   ELSE IF fn = "simulate_pid_step"
                   THEN \* pidgui_starter.py: `num = ___________` raises NameError
                        /\ uncaught' = "NameError"
                        /\ pc' = "idle"
                        /\ UNCHANGED <<messagebox, t, t_den, r, crnt_key, counter, it, writes, keys_used>>
                   ELSE \* simulate_pid_ramp, simulate_pid_sin, or no branch taken
                        /\ \E loaded \in {messagebox, messagebox \/ fn # "none"} : messagebox' = loaded
                        /\ pc' = "idle"
                        /\ UNCHANGED <<uncaught, t, t_den, r, crnt_key, counter, it, writes, keys_used>>
           ELSE \* except ValueError: tk.messagebox.showerror(...)
                /\ calls' = calls
                /\ IF messagebox
                   THEN dialogs' = dialogs + 1 /\ uncaught' = uncaught
                   ELSE dialogs' = dialogs /\ uncaught' = "AttributeError"
                /\ pc' = "idle"
                /\ UNCHANGED <<messagebox, t, t_den, r, crnt_key, counter, it, writes, keys_used>>
    /\ UNCHANGED <<script, kp_entry, ki_entry, kd_entry, input_type, ref_profile, prev_r>>

\* the rest of simulate_pid_step: forced_response, the plot, plt.show()
FinishStep ==
    /\ pc = "done"
    /\ pc' = "idle"
    /\ prev_r' = r
    /\ \E loaded \in {messagebox, TRUE} : messagebox' = loaded
    /\ UNCHANGED <<script, kp_entry, ki_entry, kd_entry, input_type, ref_profile>>
    /\ UNCHANGED <<t, t_den, r, crnt_key, counter, it, writes, keys_used>>
    /\ UNCHANGED <<calls, dialogs, uncaught>>

Init ==
    /\ script \in {"kit", "starter"}
    /\ kp_entry = "5.0" /\ ki_entry = "2.0" /\ kd_entry = "0.5"
    /\ input_type = "Step"
    /\ messagebox \in BOOLEAN
    /\ ref_profile = RefProfile
    /\ pc = "idle"
    /\ t = << >> /\ t_den = 1 /\ r = << >>
    /\ crnt_key = 0 /\ counter = 0 /\ it = 0
    /\ calls = << >> /\ dialogs = 0 /\ uncaught = "none"
    /\ writes = << >> /\ keys_used = << >>
    /\ prev_r = <<"none">>

Next ==
    \/ TypeKp \/ TypeKi \/ TypeKd \/ SelectInputType
    \/ PressGenerate
    \/ on_generate
    \/ LoopStep
    \/ LoopExit
    \/ FinishStep

Spec == Init /\ [][Next]_vars

-----------------------------------------------------------------------------
(* Properties of the Generate handler *)

GainsParse == ParseFloat(kp_entry).ok /\ ParseFloat(ki_entry).ok /\ ParseFloat(kd_entry).ok

ParsedCall(fn) ==
    [fn |-> fn, Kp |-> ParseFloat(kp_entry).val, Ki |-> ParseFloat(ki_entry).val,
     Kd |-> ParseFloat(kd_entry).val]

\* the entry point that matches a dropdown selection
Matching(selection) ==
    CASE selection = "Step"       -> "simulate_pid_step"
      [] selection = "Ramp"       -> "simulate_pid_ramp"
      [] selection = "Sinusoidal" -> "simulate_pid_sin"

\* C5: ref_profile holds at all times the keys and values it had at program start,
\* and every completed step build yields the array of the previous completed one.
C5_StatelessAcrossInvocations ==
    /\ ref_profile = RefProfile
    /\ (pc = "done" /\ prev_r # <<"none">>) => r = prev_r

C5_Witness ==
    /\ pc = "done"
    /\ prev_r # <<"none">>
    /\ Len(r) = NumSamples
    /\ r = prev_r
    /\ uncaught = "none"

\* C6 (as stated): in both scripts a Generate with three parsable gains invokes
\* exactly one entry point, the one matching the selection, with the parsed gains.
C6_DispatchInBothScripts ==
    [][(pc = "on_generate" /\ GainsParse) =>
          calls' = <<ParsedCall(Matching(input_type))>>]_vars

\* C6 (amended): in pidgui_starter_kit.py a Generate with three parsable gains
\* invokes exactly the entry point matching the selection, with the parsed gains; in
\* pidgui_starter.py it invokes simulate_pid_step for Step and nothing for Ramp and
\* Sinusoidal.
C6_DispatchPerScript ==
    [][(pc = "on_generate" /\ GainsParse) =>
          calls' = IF script = "kit" \/ input_type = "Step"
                   THEN <<ParsedCall(Matching(input_type))>>
                   ELSE << >>]_vars

C6_Witness ==
    /\ pc = "idle"
    /\ script = "kit"
    /\ input_type = "Sinusoidal"
    /\ GainsParse
    /\ calls = <<ParsedCall("simulate_pid_sin")>>
    /\ kp_entry = "0.5"

\* C7: a Generate with a non-numeric gain field invokes no simulation function,
\* shows the error dialog exactly once and leaves the entry fields, the selection and
\* ref_profile unchanged.
C7_ParseFailureShowsDialogOnce ==
    [][(pc = "on_generate" /\ ~GainsParse) =>
          /\ calls' = << >>
          /\ dialogs' = 1
          /\ UNCHANGED <<kp_entry, ki_entry, kd_entry, input_type, ref_profile>>]_vars

-----------------------------------------------------------------------------
(* Vocabulary of the properties of the loop *)

Max(S) == CHOOSE x \in S : \A y \in S : x >= y

StrictlyIncreasing(tv) == \A i \in 1..(Len(tv) - 1) : tv[i] < tv[i + 1]
NonDecreasing(tv) == \A i \in 1..(Len(tv) - 1) : tv[i] <= tv[i + 1]
AscendingKeys(profile) == \A i \in 1..(Len(profile) - 1) : profile[i][1] < profile[i + 1][1]

\* the keys strictly less than the timestamp val / den
KeysBelow(profile, val, den) == {k \in KeysOf(profile) : k * den < val}

\* the positions, in iteration order, of the keys strictly less than val / den
PositionsBelow(profile, val, den) == {j \in DOMAIN profile : profile[j][1] * den < val}

ValuesOf(profile) == {profile[i][2] : i \in DOMAIN profile}

Enumerated ==
    t_den = 1 /\ ref_profile \in Profiles /\ 0 \in KeysOf(ref_profile) /\ t \in TimeVectors

\* C1: for a profile containing key 0 with keys inserted in ascending order and a
\* strictly increasing time vector, the entry of every processed position i is the
\* value at the largest key strictly less than times[i], and profile[0] when there
\* is no such key; the worked example gives [1.0, 1.0, 1.0, 1.0, 0.5, 0.5, 0.5, 1.5].
C1_LargestKeyStrictlyBelow ==
    /\ (0 \in KeysOf(ref_profile) /\ AscendingKeys(ref_profile) /\ StrictlyIncreasing(t)) =>
          \A i \in 1..it :
             LET below == KeysBelow(ref_profile, t[i], t_den)
             IN  r[i] = Lookup(ref_profile, IF below = {} THEN 0 ELSE Max(below))
    /\ (pc = "done" /\ ref_profile = ConcreteProfile /\ t = ConcreteTimes /\ t_den = 10) =>
          r = ConcreteExpected

C1_Witness ==
    /\ pc = "done"
    /\ ref_profile = ConcreteProfile /\ t = ConcreteTimes /\ t_den = 10
    /\ r = ConcreteExpected

\* C2 (as stated): with smallest key 0, every timestamp below the smallest key
\* yields profile[0] at whatever position it occurs, sorted sequence or not.
C2_BelowAllKeysAnyOrder ==
    (0 \in KeysOf(ref_profile) /\ Min(KeysOf(ref_profile)) = 0) =>
        \A i \in 1..it : t[i] < 0 => r[i] = Lookup(ref_profile, 0)

\* C2 (amended): with smallest key 0 and a non-decreasing sequence of timestamps,
\* every timestamp below the smallest key yields profile[0].
C2_BelowAllKeysSorted ==
    (0 \in KeysOf(ref_profile) /\ Min(KeysOf(ref_profile)) = 0 /\ NonDecreasing(t)) =>
        \A i \in 1..it : t[i] < 0 => r[i] = Lookup(ref_profile, 0)

C2_Witness ==
    /\ pc = "done"
    /\ Len(ref_profile) >= 2
    /\ Len(t) = 3 /\ NonDecreasing(t)
    /\ t[2] < 0 /\ t[3] > 3
    /\ r[2] = Lookup(ref_profile, 0)
    /\ r[3] # Lookup(ref_profile, 0)

\* C3 (as stated): for every profile containing key 0, every reordering of its
\* entries produces the same reference array for the same time vector.
C3_OrderIrrelevant ==
    (pc = "done" /\ 0 \in KeysOf(ref_profile)) =>
        \A q \in Reorderings(ref_profile) : build_reference(q, t, t_den) = r

\* C3 (amended): every reordering of the entries produces the same reference array
\* for a time vector none of whose timestamps has more than one key strictly below it.
C3_OrderIrrelevantOneKeyBelow ==
    (/\ pc = "done"
     /\ 0 \in KeysOf(ref_profile)
     /\ \A i \in DOMAIN t : Cardinality(KeysBelow(ref_profile, t[i], t_den)) <= 1) =>
        \A q \in Reorderings(ref_profile) : build_reference(q, t, t_den) = r

C3_Witness ==
    /\ pc = "done"
    /\ Len(ref_profile) = 3 /\ ~AscendingKeys(ref_profile)
    /\ Len(t) = 3
    /\ \A i \in DOMAIN t : Cardinality(KeysBelow(ref_profile, t[i], t_den)) <= 1
    /\ Cardinality(KeysBelow(ref_profile, t[1], t_den)) = 1
    /\ KeysBelow(ref_profile, t[2], t_den) = {}
    /\ \A q \in Reorderings(ref_profile) : build_reference(q, t, t_den) = r

\* C4: the reference array always has as many entries as the time vector; when the
\* loop has ended every position has been assigned, in its own pass, a value of the
\* profile; an empty time vector gives an empty array.
C4_LengthAndEveryPositionAssigned ==
    /\ Len(r) = Len(t)
    /\ pc = "done" =>
          /\ \A i \in 1..Len(t) :
                /\ \E n \in DOMAIN writes : writes[n] = i - 1 /\ n = i
                /\ r[i] \in ValuesOf(ref_profile)
          /\ (t = << >> => r = << >>)

C4_Witness ==
    /\ pc = "done"
    /\ Len(t) >= 2 /\ Len(r) = Len(t)
    /\ r[Len(t)] = 0
    /\ writes[Len(t)] = Len(t) - 1

\* the entries that the loop writes, over all enumerated time vectors, at the
\* positions holding timestamp v
EntriesAt(TV) ==
    [p \in {q \in Profiles : 0 \in KeysOf(q)} |-> [v \in TimeValues |->
        UNION {{build_reference(p, tv, 1)[j] : j \in {j \in DOMAIN tv : tv[j] = v}} : tv \in TV}]]

EntriesAtAny == EntriesAt(TimeVectors)
EntriesAtSorted == EntriesAt({tv \in TimeVectors : NonDecreasing(tv)})

\* C8 (as stated): for any two time sequences, monotonic or not, that hold the same
\* timestamp at some positions, the entries written at those positions are equal.
C8_PerElementAnyOrder ==
    Enumerated => \A i \in 1..it : \A e \in EntriesAtAny[ref_profile][t[i]] : e = r[i]

\* C8 (amended): for any two non-decreasing time sequences that hold the same
\* timestamp at some positions, the entries written at those positions are equal.
C8_PerElementSorted ==
    (Enumerated /\ NonDecreasing(t)) =>
        \A i \in 1..it : \A e \in EntriesAtSorted[ref_profile][t[i]] : e = r[i]

C8_Witness ==
    /\ Enumerated /\ pc = "done"
    /\ NonDecreasing(t) /\ Len(t) = 3
    /\ t[1] <= 0 /\ t[2] = t[3] /\ t[3] > 3
    /\ Len(ref_profile) = 3
    /\ EntriesAtSorted[ref_profile][t[3]] = {r[3]}

\* C9: the key used for a position is the last key in the profile's iteration order
\* that the timestamp exceeds; when it exceeds none, the key is the one used for the
\* previous position, and the literal 0 for the first position; the entry is the
\* value at that key (so the previous entry, or profile[0] at the first position).
C9_SelectionRule ==
    /\ Len(keys_used) = Len(writes)
    /\ \A n \in DOMAIN keys_used :
          LET below == PositionsBelow(ref_profile, t[n], t_den)
          IN  /\ writes[n] = n - 1
              /\ keys_used[n] = IF below # {} THEN ref_profile[Max(below)][1]
                                ELSE IF n = 1 THEN 0 ELSE keys_used[n - 1]
              /\ r[n] = Lookup(ref_profile, keys_used[n])
              /\ below = {} => r[n] = IF n = 1 THEN Lookup(ref_profile, 0) ELSE r[n - 1]

C9_Witness ==
    /\ pc = "done"
    /\ Len(ref_profile) = 3 /\ ~AscendingKeys(ref_profile)
    /\ Len(t) = 3
    /\ Cardinality(PositionsBelow(ref_profile, t[1], t_den)) >= 2
    /\ PositionsBelow(ref_profile, t[2], t_den) = {}
    /\ keys_used[1] # 0
    /\ keys_used[2] = keys_used[1]
    /\ r[2] = r[1]

\* C10: for a profile containing key 0, counter always equals the number of timestamps already processed and stays
\* within 0..len(times), no write is out of bounds, the positions are written once
\* each in ascending order, and the loop terminates with counter = len(times).
C10_CountsAndTerminates ==
    /\ [](0 \in KeysOf(ref_profile) =>
             /\ counter = it
             /\ counter \in 0..Len(t)
             /\ pc \notin {"IndexError", "KeyError"}
             /\ writes = [n \in 1..counter |-> n - 1])
    /\ <>(0 \in KeysOf(ref_profile) => (pc = "done" /\ counter = Len(t)))

C10_Witness ==
    /\ pc = "done"
    /\ ref_profile = RefProfile
    /\ counter = NumSamples
    /\ writes = [n \in 1..NumSamples |-> n - 1]

====
